---- MODULE Spec2Model ----
\* A model of simple-server (src/src/main.rs, src/src/error.rs): a static file
\* server that resolves a request path against a root directory, reads the
\* file on a pool of 4 worker threads, optionally gzips it, and translates the
\* outcome into an HTTP response.
\*
\* Strings (request paths, PathBuf contents, file names) are sequences of
\* atoms.  The atoms "/" and "." are the one-character strings the code
\* splits on; every other atom ("index", "html", "srv", ...) is a run of
\* ordinary characters containing neither.  The string a sequence stands for
\* is the concatenation of its atoms: <<"/", "srv", "/", "a", ".", "txt">> is
\* "/srv/a.txt".
EXTENDS Naturals, Sequences, FiniteSets

\* ---------------------------------------------------------------------------
\* Option values: None is <<>>, Some(x) is <<x>>.
None == <<>>

Some(x) == <<x>>

IsSome(o) == o # <<>>

Unwrap(o) == o[1]

Last(s) == s[Len(s)]

Front(s) == SubSeq(s, 1, Len(s) - 1)

\* ---------------------------------------------------------------------------
\* std::path as the server uses it (Unix).

\* The pieces of a string between its "/" atoms ("a//b" gives a, <<>>, b).
RECURSIVE SplitSep(_)
SplitSep(s) ==
  IF s = <<>> THEN << <<>> >>
  ELSE LET rest == SplitSep(Tail(s)) IN
       IF Head(s) = "/" THEN << <<>> >> \o rest
       ELSE << <<Head(s)>> \o Head(rest) >> \o Tail(rest)

has_root(path) == path # <<>> /\ path[1] = "/"

RootDir == [kind |-> "RootDir", s |-> <<"/">>]

CurDir == [kind |-> "CurDir", s |-> <<".">>]

ParentDir == [kind |-> "ParentDir", s |-> <<".", ".">>]

Normal(name) == [kind |-> "Normal", s |-> name]

\* Path::components(): a leading "/" is RootDir; empty pieces (repeated or
\* trailing separators) are dropped; "." is dropped except as the first piece
\* of a path that has no root; ".." is ParentDir; anything else is Normal.
RECURSIVE PieceComponents(_, _, _)
PieceComponents(pieces, i, rooted) ==
  IF i > Len(pieces) THEN <<>>
  ELSE LET p == pieces[i]
           rest == PieceComponents(pieces, i + 1, rooted)
       IN IF p = <<>> THEN rest
          ELSE IF p = <<".">> THEN (IF i = 1 /\ ~rooted THEN <<CurDir>> \o rest ELSE rest)
          ELSE IF p = <<".", ".">> THEN <<ParentDir>> \o rest
          ELSE <<Normal(p)>> \o rest

Components(path) ==
  (IF has_root(path) THEN <<RootDir>> ELSE <<>>)
    \o PieceComponents(SplitSep(path), 1, has_root(path))

\* PathBuf::push: an absolute argument replaces the buffer; otherwise a
\* separator is inserted unless the buffer is empty or already ends in one.
PathPush(buf, p) ==
  IF has_root(p) THEN p
  ELSE IF buf # <<>> /\ Last(buf) # "/" THEN buf \o <<"/">> \o p
  ELSE buf \o p

\* The string of a component sequence (Components::as_path on a path that has
\* no redundant separators).
RECURSIVE AsPath(_)
AsPath(comps) ==
  IF comps = <<>> THEN <<>>
  ELSE PathPush(AsPath(Front(comps)), Last(comps).s)

\* PathBuf::pop: truncate to Path::parent(); nothing happens when the path
\* has no parent (it is empty or is the root directory "/").
PathPop(buf) ==
  LET comps == Components(buf) IN
  IF comps = <<>> \/ Last(comps).kind = "RootDir" THEN buf
  ELSE AsPath(Front(comps))

\* Path::file_name: the last component when it is a Normal one.
file_name(path) ==
  LET comps == Components(path) IN
  IF comps # <<>> /\ Last(comps).kind = "Normal" THEN Some(Last(comps).s) ELSE None

\* Position of the last "." atom of a name, 0 when it has none.
RECURSIVE LastDot(_)
LastDot(name) ==
  IF name = <<>> THEN 0
  ELSE IF Last(name) = "." THEN Len(name)
  ELSE LastDot(Front(name))

\* std's split of a file name at its last dot: <<before, after>> as Options.
\* ".." and names whose only dot is the first character are all stem.
split_file_at_dot(file) ==
  LET i == LastDot(file) IN
  IF file = <<".", ".">> THEN <<Some(file), None>>
  ELSE IF i = 0 THEN <<None, Some(file)>>
  ELSE IF i = 1 THEN <<Some(file), None>>
  ELSE <<Some(SubSeq(file, 1, i - 1)), Some(SubSeq(file, i + 1, Len(file)))>>

\* Path::extension: before.and(after).
extension(path) ==
  LET f == file_name(path) IN
  IF f = None THEN None
  ELSE LET ba == split_file_at_dot(Unwrap(f)) IN
       IF ba[1] = None THEN None ELSE ba[2]

\* Path::file_stem: before.or(after).
file_stem(path) ==
  LET f == file_name(path) IN
  IF f = None THEN None
  ELSE LET ba == split_file_at_dot(Unwrap(f)) IN
       IF ba[1] # None THEN ba[1] ELSE ba[2]

\* PathBuf::set_extension with a non-empty extension: no effect on a path
\* without a file name; otherwise the file name becomes stem "." ext.
set_extension(path, ext) ==
  IF file_name(path) = None THEN path
  ELSE PathPush(PathPop(path), Unwrap(file_stem(path)) \o <<".">> \o ext)

\* ---------------------------------------------------------------------------
\* The file system the server runs on.  A node is named by the sequence of
\* file names leading to it from "/"; <<>> is "/" itself.

srv == <<"srv">>

public == <<"public">>

docs == <<"docs">>

v1_0 == <<"v1", ".", "0">>

old_html == <<"old", ".", "html">>

index_html == <<"index", ".", "html">>

about_html == <<"about", ".", "html">>

notes_txt == <<"notes", ".", "txt">>

secret_txt == <<"secret", ".", "txt">>

bad_json == <<"bad", ".", "json">>

pipe_txt == <<"pipe", ".", "txt">>

\* The working directory of the server process (relative roots start here).
Cwd == <<srv>>

PublicDir == <<srv, public>>

\* Extensions of the files f.<ext> kept in /srv/public/docs.
DocExts == {"jpg", "jpeg", "png", "gif", "txt", "md", "html", "xml", "json", "css", "bin"}

\* A file whose name ends in a dot: its extension is the empty string.
f_dot == <<"f", ".">>

FSDirs ==
  { <<>>, <<srv>>, PublicDir, PublicDir \o <<docs>>, PublicDir \o <<v1_0>>,
    PublicDir \o <<old_html>> }

\* Regular files: what open() and read() do, the content and its length, and
\* the length of the content's gzip encoding at the fast level.
File(kind, of, len, gzlen) == [kind |-> kind, of |-> of, len |-> len, gzlen |-> gzlen]

FSFiles ==
  [p \in { PublicDir \o <<index_html>>, PublicDir \o <<about_html>>,
           PublicDir \o <<notes_txt>>, PublicDir \o <<secret_txt>>,
           PublicDir \o <<bad_json>>, PublicDir \o <<docs, index_html>>,
           PublicDir \o <<v1_0, index_html>>, PublicDir \o <<docs, f_dot>>,
           PublicDir \o <<pipe_txt>>,
           <<srv, notes_txt>>, <<notes_txt>> }
        \cup { PublicDir \o <<docs, <<"f", ".", e>> >> : e \in DocExts } |->
     IF p = PublicDir \o <<index_html>> THEN File("file", "home", 300, 180)
     ELSE IF p = PublicDir \o <<about_html>> THEN File("file", "about", 1024, 410)
     ELSE IF p = PublicDir \o <<notes_txt>> THEN File("file", "notes", 2000, 700)
     ELSE IF p = PublicDir \o <<secret_txt>> THEN File("noperm", "secret", 1500, 600)
     ELSE IF p = PublicDir \o <<bad_json>> THEN File("badread", "bad", 3000, 900)
     ELSE IF p = PublicDir \o <<docs, index_html>> THEN File("file", "docs", 1025, 1048)
     ELSE IF p = PublicDir \o <<v1_0, index_html>> THEN File("file", "v1", 500, 260)
     ELSE IF p = PublicDir \o <<docs, f_dot>> THEN File("file", "dot", 1100, 500)
     ELSE IF p = PublicDir \o <<pipe_txt>> THEN File("fifo", "pipe", 0, 0)
     ELSE IF p = <<srv, notes_txt>> THEN File("file", "outside", 1500, 520)
     ELSE IF p = <<notes_txt>> THEN File("file", "toplevel", 40, 58)
     ELSE File("file", p[Len(p)][3], 1200, 640)]

Errno(e) == [ok |-> FALSE, errno |-> e]

\* Path lookup by the kernel: walk the components from "/" or from the
\* working directory; the empty path does not exist.
RECURSIVE Walk(_, _, _)
Walk(comps, i, cur) ==
  IF i > Len(comps)
    THEN IF cur \in FSDirs \/ cur \in DOMAIN FSFiles
           THEN [ok |-> TRUE, node |-> cur] ELSE Errno("ENOENT")
  ELSE IF comps[i].kind = "RootDir" THEN Walk(comps, i + 1, <<>>)
  ELSE IF cur \in DOMAIN FSFiles THEN Errno("ENOTDIR")
  ELSE IF cur \notin FSDirs THEN Errno("ENOENT")
  ELSE IF comps[i].kind = "CurDir" THEN Walk(comps, i + 1, cur)
  ELSE IF comps[i].kind = "ParentDir"
    THEN Walk(comps, i + 1, IF cur = <<>> THEN cur ELSE Front(cur))
  ELSE Walk(comps, i + 1, cur \o <<comps[i].s>>)

Lookup(path) ==
  IF path = <<>> THEN Errno("ENOENT")
  ELSE Walk(Components(path), 1, IF has_root(path) THEN <<>> ELSE Cwd)

\* Path::is_dir: false on any error.
is_dir(path) == LET r == Lookup(path) IN r.ok /\ r.node \in FSDirs

\* std::io::Error carries the kind std derives from the errno.
IoError(errno) ==
  [kind |-> IF errno = "ENOENT" THEN "NotFound"
            ELSE IF errno = "EACCES" THEN "PermissionDenied"
            ELSE "Other",
   errno |-> errno]

\* File::open (read-only; a directory can be opened, but not read).
FileOpen(path) ==
  LET r == Lookup(path) IN
  IF ~r.ok THEN [ok |-> FALSE, err |-> IoError(r.errno)]
  ELSE IF r.node \in FSDirs
    THEN [ok |-> TRUE, file |-> File("dir", "", 4096, 0)]
  ELSE IF FSFiles[r.node].kind = "noperm"
    THEN [ok |-> FALSE, err |-> IoError("EACCES")]
  ELSE [ok |-> TRUE, file |-> FSFiles[r.node]]

\* File::open of a FIFO no process writes to never returns.
OpenBlocks(path) ==
  LET r == Lookup(path) IN
  r.ok /\ r.node \in DOMAIN FSFiles /\ FSFiles[r.node].kind = "fifo"

\* A byte vector: which content it holds, how long it is, and whether it is
\* the gzip stream of that content rather than the content itself.
Bytes(of, len, gz) == [of |-> of, len |-> len, gz |-> gz]

EmptyBody == Bytes("", 0, FALSE)

\* Variant: a single read() of at most 1024 bytes instead of reading to the end.
ReadToEnd_one_chunk(file) ==
  IF file.kind = "dir" THEN [ok |-> FALSE, err |-> IoError("EISDIR")]
  ELSE IF file.kind = "badread" THEN [ok |-> FALSE, err |-> IoError("EIO")]
  ELSE [ok |-> TRUE,
        bytes |-> Bytes(file.of, IF file.len > 1024 THEN 1024 ELSE file.len, FALSE)]

\* read_to_end on the opened file.
ReadToEnd(file) ==
  IF file.kind = "dir" THEN [ok |-> FALSE, err |-> IoError("EISDIR")]
  ELSE IF file.kind = "badread" THEN [ok |-> FALSE, err |-> IoError("EIO")]
  ELSE [ok |-> TRUE, bytes |-> Bytes(file.of, file.len, FALSE)]

\* read_to_end on GzEncoder::new(file, Compression::Fast).
GzReadToEnd(file) ==
  LET r == ReadToEnd(file) IN
  IF ~r.ok THEN r
  ELSE [ok |-> TRUE, bytes |-> Bytes(file.of, file.gzlen, TRUE)]

\* ---------------------------------------------------------------------------
\* src/src/error.rs

Error(tag, e) == [tag |-> tag, e |-> e]

FileNotFound == Error("FileNotFound", None)

\* Variant: every failure that std classifies counts as a missing file.
ErrorFromIo_any_known_kind(error) ==
  IF error.kind # "Other" THEN FileNotFound
  ELSE Error("Io", Some(error))

\* impl From<std::io::Error> for Error
ErrorFromIo(error) ==
  IF error.kind = "NotFound" THEN FileNotFound
  ELSE Error("Io", Some(error))

\* ---------------------------------------------------------------------------
\* src/src/main.rs

PoolSize == 4

MIN_GZIP_SIZE == 1024

\* hyper's Response: Response::new() is 200 with no headers and no body.
Response(status, content_length, content_type, content_encoding, body) ==
  [status |-> status, content_length |-> content_length,
   content_type |-> content_type, content_encoding |-> content_encoding,
   body |-> body]

ResponseNew == Response(200, None, None, None, EmptyBody)

with_status(resp, status) == [resp EXCEPT !.status = status]

\* A media type: its type/subtype and its charset parameter, if any.
Mime(essence, charset) == [essence |-> essence, charset |-> charset]

\* hyper 0.11 ContentType constructors and mime 0.3 parsing.
ContentType_jpeg == Mime("image/jpeg", None)

ContentType_png == Mime("image/png", None)

ContentType_plaintext == Mime("text/plain", Some("utf-8"))

ContentType_html == Mime("text/html", None)

ContentType_xml == Mime("text/xml", None)

ContentType_json == Mime("application/json", None)

\* str::parse::<Mime>() of an extension: a media type needs a "/" between a
\* type and a subtype, and no file-name extension contains one.
ParseMimeExt(ext) == None

\* StaticServer::canonicalize, the loop over path.components().
RECURSIVE canonicalize_loop(_, _, _)
canonicalize_loop(canonical, comps, i) ==
  IF i > Len(comps) THEN canonical
  ELSE LET c == comps[i].s IN
       IF c = <<".", ".">> THEN canonicalize_loop(PathPop(canonical), comps, i + 1)
       ELSE IF c # <<".">> THEN canonicalize_loop(PathPush(canonical, c), comps, i + 1)
       ELSE canonicalize_loop(canonical, comps, i + 1)

canonicalize(root, path) == canonicalize_loop(root, Components(path), 1)

\* Variant: index.html is appended only to directories without an extension.
spawn_read_canonical_plain_dirs(root, path) ==
  LET canonical == canonicalize(root, path)
      indexed == IF is_dir(canonical) /\ extension(canonical) = None
                   THEN PathPush(canonical, index_html)
                 ELSE canonical
  IN IF extension(indexed) = None THEN set_extension(indexed, <<"html">>)
     ELSE indexed

\* Variant: the extension is set to html whether or not there is one already.
spawn_read_canonical_always_html(root, path) ==
  LET canonical == canonicalize(root, path)
      indexed == IF is_dir(canonical) THEN PathPush(canonical, index_html)
                 ELSE canonical
  IN set_extension(indexed, <<"html">>)

\* StaticServer::spawn_read up to the spawn: the path moved into the job.
spawn_read_canonical(root, path) ==
  LET canonical == canonicalize(root, path)
      indexed == IF is_dir(canonical) THEN PathPush(canonical, index_html)
                 ELSE canonical
  IN IF extension(indexed) = None THEN set_extension(indexed, <<"html">>)
     ELSE indexed

\* Variant: the table lacks the md row.
content_type_without_md(path) ==
  LET e == extension(path) IN
  IF e = None THEN None
  ELSE LET ext == Unwrap(e) IN
       IF ext = <<"jpg">> \/ ext = <<"jpeg">> THEN Some(ContentType_jpeg)
       ELSE IF ext = <<"png">> THEN Some(ContentType_png)
       ELSE IF ext = <<"txt">> THEN Some(ContentType_plaintext)
       ELSE IF ext = <<"html">> THEN Some(ContentType_html)
       ELSE IF ext = <<"xml">> THEN Some(ContentType_xml)
       ELSE IF ext = <<"json">> THEN Some(ContentType_json)
       ELSE IF ext = <<"gif">> THEN Some(Mime("image/gif", None))
       ELSE IF ext = <<"css">> THEN Some(Mime("text/css", None))
       ELSE ParseMimeExt(ext)

content_type(path) ==
  LET e == extension(path) IN
  IF e = None THEN None
  ELSE LET ext == Unwrap(e) IN
       IF ext = <<"jpg">> \/ ext = <<"jpeg">> THEN Some(ContentType_jpeg)
       ELSE IF ext = <<"png">> THEN Some(ContentType_png)
       ELSE IF ext = <<"txt">> \/ ext = <<"md">> THEN Some(ContentType_plaintext)
       ELSE IF ext = <<"html">> THEN Some(ContentType_html)
       ELSE IF ext = <<"xml">> THEN Some(ContentType_xml)
       ELSE IF ext = <<"json">> THEN Some(ContentType_json)
       ELSE IF ext = <<"gif">> THEN Some(Mime("image/gif", None))
       ELSE IF ext = <<"css">> THEN Some(Mime("text/css", None))
       ELSE ParseMimeExt(ext)

Ok(v) == [ok |-> TRUE, v |-> v]

Err(e) == [ok |-> FALSE, v |-> e]

\* Variant: files of exactly MIN_GZIP_SIZE bytes are compressed too.
read_file_gzip_from_min(canonical, accept_gzip) ==
  LET opened == FileOpen(canonical) IN
  IF ~opened.ok THEN Err(ErrorFromIo(opened.err))
  ELSE LET file == opened.file
           len == file.len
           gzip == accept_gzip /\ len >= MIN_GZIP_SIZE
           read == IF gzip THEN GzReadToEnd(file) ELSE ReadToEnd(file)
       IN IF ~read.ok THEN Err(ErrorFromIo(read.err))
          ELSE Ok(Response(200, Some(len), content_type(canonical),
                           IF gzip THEN Some(<<"gzip">>) ELSE None,
                           read.bytes))

\* Variant: Content-Encoding follows the request, not what was done to the body.
read_file_encoding_from_request(canonical, accept_gzip) ==
  LET opened == FileOpen(canonical) IN
  IF ~opened.ok THEN Err(ErrorFromIo(opened.err))
  ELSE LET file == opened.file
           len == file.len
           gzip == accept_gzip /\ len > MIN_GZIP_SIZE
           read == IF gzip THEN GzReadToEnd(file) ELSE ReadToEnd(file)
       IN IF ~read.ok THEN Err(ErrorFromIo(read.err))
          ELSE Ok(Response(200, Some(len), content_type(canonical),
                           IF accept_gzip THEN Some(<<"gzip">>) ELSE None,
                           read.bytes))

read_file(canonical, accept_gzip) ==
  LET opened == FileOpen(canonical) IN
  IF ~opened.ok THEN Err(ErrorFromIo(opened.err))
  ELSE LET file == opened.file
           len == file.len
           gzip == accept_gzip /\ len > MIN_GZIP_SIZE
           read == IF gzip THEN GzReadToEnd(file) ELSE ReadToEnd(file)
       IN IF ~read.ok THEN Err(ErrorFromIo(read.err))
          ELSE Ok(Response(200, Some(len), content_type(canonical),
                           IF gzip THEN Some(<<"gzip">>) ELSE None,
                           read.bytes))

\* Variant: the 500 response tells the client which error it was.
translate_error_naming_cause(err) ==
  IF err.tag = "Hyper" THEN Err(Unwrap(err.e))
  ELSE IF err.tag = "FileNotFound" THEN Ok(with_status(ResponseNew, 404))
  ELSE Ok([with_status(ResponseNew, 500) EXCEPT !.body = Bytes(err.tag, 1, FALSE)])

translate_error(err) ==
  IF err.tag = "Hyper" THEN Err(Unwrap(err.e))
  ELSE IF err.tag = "FileNotFound" THEN Ok(with_status(ResponseNew, 404))
  ELSE Ok(with_status(ResponseNew, 500))

\* The line translate_error writes with error!(), if any.
translate_error_log(err) ==
  IF err.tag = "Hyper" \/ err.tag = "FileNotFound" THEN <<>>
  ELSE << [level |-> "error", cause |-> err] >>

\* The debug!() line read_file writes as its first statement, before
\* File::open: it names the path the job was given.
read_file_log(canonical) == << [level |-> "debug", canonical |-> canonical] >>

\* ---------------------------------------------------------------------------
\* Requests as hyper hands them to Service::call.

QualityItem(item, q) == [item |-> item, q |-> q]

Request(method, path, accept_encoding) ==
  [method |-> method, path |-> path, accept_encoding |-> accept_encoding]

\* call's test of the AcceptEncoding header.
accepts_gzip(req) ==
  IF req.accept_encoding = None THEN FALSE
  ELSE \E i \in DOMAIN Unwrap(req.accept_encoding) :
         Unwrap(req.accept_encoding)[i].item = "gzip"

\* ResponseFuture: NotAllowed, or Found(CpuFuture) whose result arrives later.
NotAllowed == [tag |-> "NotAllowed", result |-> None]

Found(result) == [tag |-> "Found", result |-> result]

\* Poll<Response, hyper::Error>: Ok(Async::Ready(r)), Ok(Async::NotReady), Err(e).
Ready(r) == [kind |-> "Ready", v |-> Some(r)]

NotReady == [kind |-> "NotReady", v |-> None]

PollErr(e) == [kind |-> "Err", v |-> Some(e)]

\* impl Future for ResponseFuture: poll.
ResponseFuture_poll(f) ==
  IF f.tag = "NotAllowed" THEN Ready(with_status(ResponseNew, 405))
  ELSE IF f.result = None THEN NotReady
  ELSE IF Unwrap(f.result).ok THEN Ready(Unwrap(f.result).v)
  ELSE LET t == translate_error(Unwrap(f.result).v) IN
       IF t.ok THEN Ready(t.v) ELSE PollErr(t.v)

\* The error!() lines written during that poll.
ResponseFuture_poll_log(f) ==
  IF f.tag = "Found" /\ f.result # None /\ ~Unwrap(f.result).ok
    THEN translate_error_log(Unwrap(f.result).v)
  ELSE <<>>

\* Variant: the line always says 200.
RequestLogger_log_always_200(req, response) ==
  [level |-> "debug", status |-> 200, method |-> req.method, path |-> req.path]

\* RequestLogger::log: the debug!() line for a ready response.
RequestLogger_log(req, response) ==
  [level |-> "debug", status |-> response.status, method |-> req.method,
   path |-> req.path]

\* ---------------------------------------------------------------------------
\* The server as a state machine.
VARIABLES
  root,     \* StaticServer.root
  req,      \* per connection: the request being served (RequestLogger.0)
  fut,      \* per connection: its ResponseFuture (RequestLogger.1)
  queue,    \* the pool's queue of spawned read_file jobs
  worker,   \* per pool thread: the job it is running
  resp,     \* per connection: what the future resolved to
  logged,   \* per connection: log lines written for the current request
  started   \* the connections being served, by req_start (RequestLogger.2)

vars == <<root, req, fut, queue, worker, resp, logged, started>>

Workers == 1 .. PoolSize

\* A spawned job: the closure's captures and the connection whose CpuFuture
\* receives the result; conn is Gone once that CpuFuture has been dropped.
Job(conn, canonical, gzip) == [conn |-> conn, canonical |-> canonical, gzip |-> gzip]

Gone == 0

\* The sequence without its entries equal to x.
Without(seq, x) == SelectSeq(seq, LAMBDA y : y # x)

\* The log once a pool thread has entered read_file for job: the line is
\* among the lines of the request the job belongs to, if that request is
\* still being served.
LoggedOnEntry(job) ==
  IF job.conn = Gone THEN logged
  ELSE [logged EXCEPT ![job.conn] = @ \o read_file_log(job.canonical)]

\* Variant: only POST is refused; every other method is served like GET.
CallWith_refusing_only_post(c, r, canonical) ==
  /\ req[c] = None
  /\ req' = [req EXCEPT ![c] = Some(r)]
  /\ resp' = [resp EXCEPT ![c] = None]
  /\ logged' = [logged EXCEPT ![c] = <<>>]
  /\ IF r.method = "POST"
       THEN /\ fut' = [fut EXCEPT ![c] = Some(NotAllowed)]
            /\ UNCHANGED queue
       ELSE /\ fut' = [fut EXCEPT ![c] = Some(Found(None))]
            /\ queue' = Append(queue, Job(c, canonical, accepts_gzip(r)))
  /\ started' = Append(started, c)
  /\ UNCHANGED <<root, worker>>

\* Variant: the job is spawned before the method is looked at.
CallWith_spawning_before_method_check(c, r, canonical) ==
  /\ req[c] = None
  /\ req' = [req EXCEPT ![c] = Some(r)]
  /\ resp' = [resp EXCEPT ![c] = None]
  /\ logged' = [logged EXCEPT ![c] = <<>>]
  /\ queue' = Append(queue, Job(IF r.method # "GET" THEN Gone ELSE c,
                                canonical, accepts_gzip(r)))
  /\ fut' = [fut EXCEPT ![c] =
       IF r.method # "GET" THEN Some(NotAllowed) ELSE Some(Found(None))]
  /\ started' = Append(started, c)
  /\ UNCHANGED <<root, worker>>

\* Variant: the job is spawned twice.
CallWith_spawning_twice(c, r, canonical) ==
  /\ req[c] = None
  /\ req' = [req EXCEPT ![c] = Some(r)]
  /\ resp' = [resp EXCEPT ![c] = None]
  /\ logged' = [logged EXCEPT ![c] = <<>>]
  /\ IF r.method # "GET"
       THEN /\ fut' = [fut EXCEPT ![c] = Some(NotAllowed)]
            /\ UNCHANGED queue
       ELSE /\ fut' = [fut EXCEPT ![c] = Some(Found(None))]
            /\ queue' = Append(Append(queue, Job(c, canonical, accepts_gzip(r))),
                             Job(c, canonical, accepts_gzip(r)))
  /\ started' = Append(started, c)
  /\ UNCHANGED <<root, worker>>

\* Variant: call returns only once a pool thread is free for its job.
CallWith_waiting_for_thread(c, r, canonical) ==
  /\ req[c] = None
  /\ r.method = "GET" => \E w \in DOMAIN worker : worker[w] = None /\ queue = <<>>
  /\ req' = [req EXCEPT ![c] = Some(r)]
  /\ resp' = [resp EXCEPT ![c] = None]
  /\ logged' = [logged EXCEPT ![c] = <<>>]
  /\ IF r.method # "GET"
       THEN /\ fut' = [fut EXCEPT ![c] = Some(NotAllowed)]
            /\ UNCHANGED queue
       ELSE /\ fut' = [fut EXCEPT ![c] = Some(Found(None))]
            /\ queue' = Append(queue, Job(c, canonical, accepts_gzip(r)))
  /\ started' = Append(started, c)
  /\ UNCHANGED <<root, worker>>

\* Service::call on connection c, with the path spawn_read has computed for
\* the job: a request that is not a GET is refused at once, a GET has its
\* job spawned and gets the pending CpuFuture.
CallWith(c, r, canonical) ==
  /\ req[c] = None
  /\ req' = [req EXCEPT ![c] = Some(r)]
  /\ resp' = [resp EXCEPT ![c] = None]
  /\ logged' = [logged EXCEPT ![c] = <<>>]
  /\ IF r.method # "GET"
       THEN /\ fut' = [fut EXCEPT ![c] = Some(NotAllowed)]
            /\ UNCHANGED queue
       ELSE /\ fut' = [fut EXCEPT ![c] = Some(Found(None))]
            /\ queue' = Append(queue, Job(c, canonical, accepts_gzip(r)))
  /\ started' = Append(started, c)
  /\ UNCHANGED <<root, worker>>

\* Service::call on connection c.
Call(c, r) == CallWith(c, r, spawn_read_canonical(root, Tail(r.path)))

\* Variant: the thread starts every job it takes, cancelled or not.
WorkerTake_running_cancelled(w) ==
  /\ worker[w] = None
  /\ queue # <<>>
  /\ worker' = [worker EXCEPT ![w] = Some(Head(queue))]
  /\ logged' = LoggedOnEntry(Head(queue))
  /\ queue' = Tail(queue)
  /\ UNCHANGED <<root, req, fut, resp, started>>

\* Variant: only the first thread of the pool takes jobs.
WorkerTake_first_thread_only(w) ==
  /\ w = 1
  /\ worker[w] = None
  /\ queue # <<>>
  /\ worker' = [worker EXCEPT ![w] =
       IF Head(queue).conn = Gone THEN None ELSE Some(Head(queue))]
  /\ logged' = IF Head(queue).conn = Gone THEN logged
               ELSE LoggedOnEntry(Head(queue))
  /\ queue' = Tail(queue)
  /\ UNCHANGED <<root, req, fut, resp, started>>

\* Variant: the thread takes the newest queued job.
WorkerTake_newest_first(w) ==
  /\ worker[w] = None
  /\ queue # <<>>
  /\ worker' = [worker EXCEPT ![w] =
       IF Last(queue).conn = Gone THEN None ELSE Some(Last(queue))]
  /\ logged' = IF Last(queue).conn = Gone THEN logged
               ELSE LoggedOnEntry(Last(queue))
  /\ queue' = Front(queue)
  /\ UNCHANGED <<root, req, fut, resp, started>>

\* An idle pool thread takes the oldest queued job and polls it: a job whose
\* CpuFuture has been dropped is cancelled there, before read_file is called;
\* for any other job the thread enters read_file, which writes its debug!()
\* line and goes on to open the file.
WorkerTake(w) ==
  /\ worker[w] = None
  /\ queue # <<>>
  /\ worker' = [worker EXCEPT ![w] =
       IF Head(queue).conn = Gone THEN None ELSE Some(Head(queue))]
  /\ logged' = IF Head(queue).conn = Gone THEN logged
               ELSE LoggedOnEntry(Head(queue))
  /\ queue' = Tail(queue)
  /\ UNCHANGED <<root, req, fut, resp, started>>

\* read_file, entered when the thread took job, has returned result: the
\* thread sends it to the CpuFuture and is idle again; the result is thrown
\* away when the CpuFuture is gone.
RunJob(w, job, result) ==
  /\ worker[w] = Some(job)
  /\ fut' = IF job.conn = Gone THEN fut
            ELSE [fut EXCEPT ![job.conn] = Some(Found(Some(result)))]
  /\ worker' = [worker EXCEPT ![w] = None]
  /\ UNCHANGED <<root, req, queue, resp, logged, started>>

\* read_file returns on the thread that is in it, unless File::open never
\* returns.
WorkerRun(w) ==
  /\ worker[w] # None
  /\ ~OpenBlocks(Unwrap(worker[w]).canonical)
  /\ LET job == Unwrap(worker[w]) IN
       RunJob(w, job, read_file(job.canonical, job.gzip))

\* Variant: responses are given in the order of the requests.
Poll_in_request_order(c) ==
  /\ fut[c] # None
  /\ c = Head(started)
  /\ resp[c] = None
  /\ LET inner == ResponseFuture_poll(Unwrap(fut[c])) IN
       /\ inner.kind # "NotReady"
       /\ resp' = [resp EXCEPT ![c] = Some(inner)]
       /\ logged' = [logged EXCEPT ![c] =
            logged[c] \o ResponseFuture_poll_log(Unwrap(fut[c]))
              \o (IF inner.kind = "Ready"
                    THEN <<RequestLogger_log(Unwrap(req[c]), Unwrap(inner.v))>>
                  ELSE <<>>)]
  /\ UNCHANGED <<root, req, fut, queue, worker, started>>

\* RequestLogger::poll when the inner future has something to return (a
\* NotReady poll changes nothing).
Poll(c) ==
  /\ fut[c] # None
  /\ resp[c] = None
  /\ LET inner == ResponseFuture_poll(Unwrap(fut[c])) IN
       /\ inner.kind # "NotReady"
       /\ resp' = [resp EXCEPT ![c] = Some(inner)]
       /\ logged' = [logged EXCEPT ![c] =
            logged[c] \o ResponseFuture_poll_log(Unwrap(fut[c]))
              \o (IF inner.kind = "Ready"
                    THEN <<RequestLogger_log(Unwrap(req[c]), Unwrap(inner.v))>>
                  ELSE <<>>)]
  /\ UNCHANGED <<root, req, fut, queue, worker, started>>

\* The response has been written; the connection is free for a next request.
Finish(c) ==
  /\ resp[c] # None
  /\ req' = [req EXCEPT ![c] = None]
  /\ fut' = [fut EXCEPT ![c] = None]
  /\ resp' = [resp EXCEPT ![c] = None]
  /\ logged' = [logged EXCEPT ![c] = <<>>]
  /\ started' = Without(started, c)
  /\ UNCHANGED <<root, queue, worker>>

\* The job as it is once the CpuFuture of connection c has been dropped.
Orphaned(job, c) == IF job.conn = c THEN [job EXCEPT !.conn = Gone] ELSE job

\* The client of connection c goes away before the future has resolved: the
\* RequestLogger and its CpuFuture are dropped, the job stays in the pool.
Drop(c) ==
  /\ req[c] # None
  /\ resp[c] = None
  /\ req' = [req EXCEPT ![c] = None]
  /\ fut' = [fut EXCEPT ![c] = None]
  /\ logged' = [logged EXCEPT ![c] = <<>>]
  /\ started' = Without(started, c)
  /\ queue' = [i \in DOMAIN queue |-> Orphaned(queue[i], c)]
  /\ worker' = [w \in Workers |->
       IF worker[w] = None THEN None ELSE Some(Orphaned(Unwrap(worker[w]), c))]
  /\ UNCHANGED <<root, resp>>

\* ---------------------------------------------------------------------------
\* Inputs.

\* Longest run of directory segments put before the last segment of a path.
MaxPrefix == 2

Roots == { <<"/", "srv", "/", "public">>, <<".", "/", "public">> }

Methods == {"GET", "POST", "HEAD"}

AcceptEncodings ==
  { None,
    Some(<<QualityItem("gzip", 1000)>>),
    Some(<<QualityItem("deflate", 1000)>>),
    Some(<<QualityItem("deflate", 1000), QualityItem("gzip", 0)>>) }

PrefixSegs == { <<>>, <<".">>, <<".", ".">>, docs, v1_0 }

FinalSegs ==
  PrefixSegs
    \cup { srv, index_html, <<"about">>, notes_txt, secret_txt, bad_json, <<"old">>,
           <<".", "hidden">>, f_dot }
    \cup { <<"f", ".", e>> : e \in DocExts }

\* The segments joined by "/".
RECURSIVE JoinSegs(_)
JoinSegs(segs) ==
  IF segs = <<>> THEN <<>>
  ELSE IF Len(segs) = 1 THEN segs[1]
  ELSE segs[1] \o <<"/">> \o JoinSegs(Tail(segs))

\* Request paths: "/" followed by up to MaxPrefix + 1 segments.
RequestPaths ==
  { <<"/">> \o JoinSegs(pre \o <<fin>>) :
      pre \in UNION { [1 .. k -> PrefixSegs] : k \in 0 .. MaxPrefix },
      fin \in FinalSegs }

Requests ==
  { Request(m, p, ae) : m \in Methods, p \in RequestPaths, ae \in AcceptEncodings }

\* One keep-alive connection whose requests are served one after another.
Conns == {1}

Init ==
  /\ root \in Roots
  /\ req = [c \in Conns |-> None]
  /\ fut = [c \in Conns |-> None]
  /\ resp = [c \in Conns |-> None]
  /\ logged = [c \in Conns |-> <<>>]
  /\ queue = <<>>
  /\ worker = [w \in Workers |-> None]
  /\ started = <<>>

Next ==
  \/ \E c \in Conns : req[c] = None /\ \E r \in Requests : Call(c, r)
  \/ \E w \in Workers : WorkerTake(w)
  \/ \E w \in Workers : WorkerRun(w)
  \/ \E c \in Conns : Poll(c)
  \/ \E c \in Conns : Finish(c)

Spec == Init /\ [][Next]_vars

\* ---------------------------------------------------------------------------
\* The pool under several connections whose clients may go away.

\* The most jobs in the pool whose CpuFuture has been dropped.
MaxOrphans == 4

MaxLiveOrphans == 2

PoolConns == {1, 2}

PoolRoot == <<"/", "srv", "/", "public">>

\* A GET that is served, a GET that fails, and a request that is refused.
PoolRequests ==
  { Request("GET", <<"/">> \o notes_txt, Some(<<QualityItem("gzip", 1000)>>)),
    Request("GET", <<"/">> \o secret_txt, None),
    Request("POST", <<"/">> \o notes_txt, None) }

\* A request served from a file, one refused, and one for a file whose open
\* never returns.
LiveRequests ==
  { Request("GET", <<"/">> \o notes_txt, None),
    Request("POST", <<"/">> \o notes_txt, None),
    Request("GET", <<"/">> \o pipe_txt, None) }

\* The indices of the queue whose job satisfies Test, and the threads.
QueuedWhere(Test(_)) == { i \in DOMAIN queue : Test(queue[i]) }

RunningWhere(Test(_)) ==
  { w \in Workers : worker[w] # None /\ Test(Unwrap(worker[w])) }

IsOrphan(job) == job.conn = Gone

IsStuck(job) == OpenBlocks(job.canonical)

Orphans == Cardinality(QueuedWhere(IsOrphan)) + Cardinality(RunningWhere(IsOrphan))

\* The threads whose call of read_file never returns, and the number of jobs
\* in the pool that never finish.
StuckWorkers == RunningWhere(IsStuck)

Stuck == Cardinality(QueuedWhere(IsStuck)) + Cardinality(StuckWorkers)

\* The request would spawn a job that never finishes.
SpawnsStuck(r) ==
  r.method = "GET" /\ OpenBlocks(spawn_read_canonical(root, Tail(r.path)))

InitPool ==
  /\ root = PoolRoot
  /\ req = [c \in PoolConns |-> None]
  /\ fut = [c \in PoolConns |-> None]
  /\ resp = [c \in PoolConns |-> None]
  /\ logged = [c \in PoolConns |-> <<>>]
  /\ queue = <<>>
  /\ worker = [w \in Workers |-> None]
  /\ started = <<>>

NextPool ==
  \/ \E c \in PoolConns : req[c] = None /\ \E r \in PoolRequests : Call(c, r)
  \/ \E w \in Workers : WorkerTake(w)
  \/ \E w \in Workers : WorkerRun(w)
  \/ \E c \in PoolConns : Poll(c)
  \/ \E c \in PoolConns : Finish(c)
  \/ \E c \in PoolConns : Orphans < MaxOrphans /\ Drop(c)

SpecPool == InitPool /\ [][NextPool]_vars

\* The same with fewer than PoolSize jobs that never finish, and with pool
\* threads and the event loop that keep running.
NextLive ==
  \/ \E c \in PoolConns : req[c] = None /\
       \E r \in LiveRequests :
         (SpawnsStuck(r) => Stuck < PoolSize - 1) /\ Call(c, r)
  \/ \E w \in Workers : WorkerTake(w)
  \/ \E w \in Workers : WorkerRun(w)
  \/ \E c \in PoolConns : Poll(c)
  \/ \E c \in PoolConns : Finish(c)
  \/ \E c \in PoolConns : Orphans < MaxLiveOrphans /\ Drop(c)

\* The jobs the requests of NextLive spawn, with and without their CpuFuture.
LiveJobs ==
  { Job(c, spawn_read_canonical(PoolRoot, Tail(r.path)), accepts_gzip(r)) :
      c \in PoolConns \cup {Gone}, r \in { q \in LiveRequests : q.method = "GET" } }

\* A pool thread that has work goes on with it: an idle thread takes the
\* next job when there is one, and a thread whose read_file returns sends
\* the result (the step of WorkerRun for the job the thread holds, with what
\* read_file returns for it). The event loop polls every future that has
\* been notified.
Fairness ==
  /\ \A w \in Workers : WF_vars(WorkerTake(w))
  /\ \A w \in Workers : \A job \in LiveJobs :
       \A result \in IF OpenBlocks(job.canonical) THEN {}
                      ELSE {read_file(job.canonical, job.gzip)} :
         WF_vars(RunJob(w, job, result))
  /\ \A c \in PoolConns : WF_vars(Poll(c))

SpecLive == InitPool /\ [][NextLive]_vars /\ Fairness

\* ---------------------------------------------------------------------------
\* Properties.

\* The jobs the pool holds, queued or running.
JobsInPool ==
  { queue[i] : i \in DOMAIN queue }
    \cup { Unwrap(worker[w]) : w \in { v \in Workers : worker[v] # None } }

\* Connections that carry a request / a GET request / a resolved future.
Serving == { c \in DOMAIN req : req[c] # None }

ServingGet == { c \in Serving : Unwrap(req[c]).method = "GET" }

Answered == { c \in Serving : resp[c] # None }

TheRequest(c) == Unwrap(req[c])

\* What the future of connection c resolved to, and the response in it.
Outcome(c) == Unwrap(resp[c])

TheResponse(c) == Unwrap(Outcome(c).v)

Succeeded ==
  { c \in Answered \cap ServingGet :
      Outcome(c).kind = "Ready" /\ TheResponse(c).status = 200 }

\* The request path of connection c without its leading separator, what
\* canonicalize makes of it, and the path its job is given.
Remainder(c) == Tail(TheRequest(c).path)

Canonical(c) == canonicalize(root, Remainder(c))

Handed(c) == spawn_read_canonical(root, Remainder(c))

\* The regular file found at a path, if there is one.
FileAt(path) ==
  LET r == Lookup(path) IN
  IF r.ok /\ r.node \in DOMAIN FSFiles THEN Some(FSFiles[r.node]) ELSE None

IsPrefix(s, t) == Len(s) <= Len(t) /\ SubSeq(t, 1, Len(s)) = s

\* path is dir itself or lies below it: dir's components begin path's, and
\* no ".." follows them.
IsWithin(dir, path) ==
  /\ IsPrefix(Components(dir), Components(path))
  /\ \A i \in DOMAIN Components(path) : Components(path)[i].kind # "ParentDir"

\* C1 (as claimed): for every request, the path canonicalize produces and the
\* path handed to the read_file job are the root or a descendant of the root
\* (so a ".." met with nothing pushed beyond the root leaves the root).
C1_HandedPathWithinRoot ==
  \A job \in JobsInPool :
    /\ IsWithin(root, Canonical(job.conn))
    /\ IsWithin(root, job.canonical)

\* The request's Accept-Encoding header lists gzip.
OffersGzip(r) ==
  /\ r.accept_encoding # None
  /\ "gzip" \in { Unwrap(r.accept_encoding)[i].item : i \in DOMAIN Unwrap(r.accept_encoding) }

\* C2: the body of a successful GET response is the gzip stream exactly when
\* the request lists gzip in Accept-Encoding and the file is longer than 1024
\* bytes; otherwise it is the raw bytes of the file.
C2_GzipIffOfferedAndLarge ==
  \A c \in Succeeded :
    LET f == Unwrap(FileAt(Handed(c))) IN
    /\ TheResponse(c).body.gz <=> (OffersGzip(TheRequest(c)) /\ f.len > 1024)
    /\ ~TheResponse(c).body.gz => TheResponse(c).body = Bytes(f.of, f.len, FALSE)

\* A file of exactly 1024 bytes was requested with gzip offered and served raw.
C2_Witness ==
  \E c \in Succeeded :
    /\ OffersGzip(TheRequest(c))
    /\ Unwrap(FileAt(Handed(c))).len = 1024
    /\ ~TheResponse(c).body.gz

\* C3 (as claimed): a successful response has exactly one Content-Length and
\* it is the number of bytes of the body, raw or compressed.
C3_ContentLengthIsBodyLength ==
  \A c \in Succeeded :
    TheResponse(c).content_length = Some(TheResponse(c).body.len)

\* C4: a request whose method is not GET is answered 405, whatever its path
\* and headers.
C4_NonGetIs405 ==
  \A c \in Answered \ ServingGet :
    Outcome(c).kind = "Ready" /\ TheResponse(c).status = 405

\* A HEAD request for an existing file, with gzip offered, was answered.
C4_Witness ==
  \E c \in Answered :
    /\ TheRequest(c).method = "HEAD"
    /\ OffersGzip(TheRequest(c))
    /\ FileAt(Handed(c)) # None

\* The result the job of connection c delivered.
JobResult(c) == Unwrap(Unwrap(fut[c]).result)

Failed == { c \in Answered \cap ServingGet : ~JobResult(c).ok }

\* C5: a GET whose job failed gets 404 when the failure is "no such file"
\* (ENOENT) and 500 for every other failure; the failure never comes out of
\* the future as an error.
C5_FailureIs404Or500 ==
  \A c \in Failed :
    /\ Outcome(c).kind = "Ready"
    /\ TheResponse(c).status =
         (IF Lookup(Handed(c)) = Errno("ENOENT") THEN 404 ELSE 500)

\* A job failed on a file that exists but may not be opened.
C5_Witness ==
  \E c \in Failed :
    /\ FileAt(Handed(c)) # None
    /\ Unwrap(FileAt(Handed(c))).kind = "noperm"

\* C6: when the canonicalized path is an existing directory, the job is given
\* that directory followed by the one component index.html.
C6_DirectoryGetsIndexHtml ==
  \A job \in JobsInPool :
    is_dir(Canonical(job.conn)) =>
      Components(job.canonical)
        = Components(Canonical(job.conn)) \o <<Normal(index_html)>>

\* A job for a directory whose name has a dot is in the pool.
C6_Witness ==
  \E job \in JobsInPool :
    /\ is_dir(Canonical(job.conn))
    /\ extension(Canonical(job.conn)) # None

\* The last segment of the request path as Path::components() yields it
\* (empty segments are not segments), if there is one.
FinalSegment(c) ==
  LET comps == Components(Remainder(c)) IN
  IF comps = <<>> THEN None ELSE Some(Last(comps).s)

EndsWith(s, t) == Len(t) <= Len(s) /\ SubSeq(s, Len(s) - Len(t) + 1, Len(s)) = t

\* C7: when the final segment of the request path has no ".", the path given
\* to the job ends in ".html"; when the path is not a directory and its final
\* segment has an extension, the job's path ends in that same segment.
C7_HtmlSuffix ==
  \A job \in JobsInPool :
    LET seg == FinalSegment(job.conn) IN
    /\ (seg # None /\ LastDot(Unwrap(seg)) = 0)
         => EndsWith(job.canonical, <<".", "html">>)
    /\ (seg # None /\ ~is_dir(Canonical(job.conn))
          /\ split_file_at_dot(Unwrap(seg))[1] # None
          /\ split_file_at_dot(Unwrap(seg))[2] # None
          /\ Unwrap(seg) # <<".", ".">> /\ Unwrap(seg) # <<".">>)
         => /\ job.canonical = Canonical(job.conn)
            /\ file_name(job.canonical) = seg

\* A job for a name without a dot that is no directory is in the pool.
C7_Witness ==
  \E job \in JobsInPool :
    /\ FinalSegment(job.conn) = Some(<<"about">>)
    /\ ~is_dir(Canonical(job.conn))

\* The media type the extension table gives, with the type for xml left open.
TableType(e, xml_type) ==
  IF e = None THEN None
  ELSE LET ext == Unwrap(e) IN
       IF ext \in { <<"jpg">>, <<"jpeg">> } THEN Some("image/jpeg")
       ELSE IF ext = <<"png">> THEN Some("image/png")
       ELSE IF ext = <<"gif">> THEN Some("image/gif")
       ELSE IF ext \in { <<"txt">>, <<"md">> } THEN Some("text/plain")
       ELSE IF ext = <<"html">> THEN Some("text/html")
       ELSE IF ext = <<"xml">> THEN Some(xml_type)
       ELSE IF ext = <<"json">> THEN Some("application/json")
       ELSE IF ext = <<"css">> THEN Some("text/css")
       ELSE None

\* The media type of a response's Content-Type header, if it has the header.
SentType(response) ==
  IF response.content_type = None THEN None
  ELSE Some(Unwrap(response.content_type).essence)

\* C8 (as claimed): the Content-Type of a successful response is the table's
\* type for the extension of the path given to the job, application/xml for
\* xml, and there is no Content-Type when the table has none.
C8_ContentTypeByTable ==
  \A c \in Succeeded :
    SentType(TheResponse(c)) = TableType(extension(Handed(c)), "application/xml")

\* C8 (amended): the same with text/xml for the extension xml.
C8_ContentTypeByTableTextXml ==
  \A c \in Succeeded :
    SentType(TheResponse(c)) = TableType(extension(Handed(c)), "text/xml")

\* A file with the extension xml was served.
C8_Witness ==
  \E c \in Succeeded :
    /\ extension(Handed(c)) = Some(<<"xml">>)
    /\ TheResponse(c).content_type # None

\* Every response a future resolved to.
Responded == { c \in Answered : Outcome(c).kind = "Ready" }

\* C9: a response carries Content-Encoding: gzip exactly when its body is the
\* gzip stream; it carries no other Content-Encoding, and 404, 405 and 500
\* responses carry none.
C9_EncodingHeaderIffCompressed ==
  \A c \in Responded :
    /\ TheResponse(c).content_encoding = Some(<<"gzip">>) <=> TheResponse(c).body.gz
    /\ TheResponse(c).content_encoding \in { None, Some(<<"gzip">>) }
    /\ TheResponse(c).status # 200 => TheResponse(c).content_encoding = None

\* A compressed body went out with the header.
C9_Witness ==
  \E c \in Succeeded :
    /\ TheResponse(c).body.gz
    /\ TheResponse(c).content_encoding = Some(<<"gzip">>)

\* Connections whose GET names, without the index.html or .html fallback, an
\* existing readable file, and for which gzip is not applied.
PlainFileGets ==
  { c \in Answered \cap ServingGet :
      /\ Handed(c) = Canonical(c)
      /\ FileAt(Canonical(c)) # None
      /\ Unwrap(FileAt(Canonical(c))).kind = "file"
      /\ ~(OffersGzip(TheRequest(c)) /\ Unwrap(FileAt(Canonical(c))).len > 1024) }

\* C10: such a request is answered 200 with exactly the file's content as
\* its body, all of it and nothing more.
C10_BodyIsFileContent ==
  \A c \in PlainFileGets :
    LET f == Unwrap(FileAt(Canonical(c))) IN
    /\ Outcome(c).kind = "Ready"
    /\ TheResponse(c).status = 200
    /\ TheResponse(c).body = Bytes(f.of, f.len, FALSE)

\* A file longer than 1024 bytes was served to a request not offering gzip.
C10_Witness ==
  \E c \in PlainFileGets :
    /\ ~OffersGzip(TheRequest(c))
    /\ Unwrap(FileAt(Canonical(c))).len > 1024

\* The error!() lines and the request lines written for connection c.
ErrorLines(c) == SelectSeq(logged[c], LAMBDA l : l.level = "error")

\* The lines of RequestLogger::log and those of read_file.
RequestLines(c) == SelectSeq(logged[c], LAMBDA l : "status" \in DOMAIN l)

ReadLines(c) == SelectSeq(logged[c], LAMBDA l : "canonical" \in DOMAIN l)

\* C11: a 404, 405 or 500 response is a bare status: no headers, an empty
\* body, nothing of the cause, the path or the root; the cause of a 500 is
\* written to the log, and a 404 or 405 writes no error line.
C11_ErrorResponsesAreBare ==
  \A c \in Responded :
    LET r == TheResponse(c) IN
    /\ r.status \in {200, 404, 405, 500}
    /\ r.status # 200 =>
         /\ r = Response(r.status, None, None, None, Bytes("", 0, FALSE))
         /\ ErrorLines(c)
              = IF r.status = 500
                  THEN << [level |-> "error", cause |-> JobResult(c).v] >>
                ELSE <<>>

\* A 500 went out for a file whose read failed, and the cause was logged.
C11_Witness ==
  \E c \in Responded :
    /\ TheResponse(c).status = 500
    /\ Len(ErrorLines(c)) = 1
    /\ Unwrap(ErrorLines(c)[1].cause.e).errno = "EIO"

\* The line RequestLogger::log writes for the response of connection c.
RequestLine(c) ==
  [level |-> "debug", status |-> TheResponse(c).status,
   method |-> TheRequest(c).method, path |-> TheRequest(c).path]

\* C17 (as claimed): a request has no log record before its outcome is
\* determined and exactly one afterwards, which carries the status of the
\* response.
C17_OneRecordAfterOutcome ==
  \A c \in Serving :
    /\ resp[c] = None => logged[c] = <<>>
    /\ resp[c] # None =>
         /\ Outcome(c).kind = "Ready"
         /\ logged[c] = <<RequestLine(c)>>

\* A pool thread has entered read_file for the job of connection c.
JobEntered(c) ==
  /\ c \in ServingGet
  /\ \A i \in DOMAIN queue : queue[i].conn # c

\* C17 (amended): the records of a request are, in this order: for a GET
\* whose job a pool thread has started, the debug line of read_file naming
\* the path the job was given, written before the outcome; for a 500, the
\* error line of the cause; and, only once the outcome is determined, exactly
\* one request line, which carries the request's method and path and the
\* status of the response.
C17_OneRequestLineAfterOutcome ==
  \A c \in Serving :
    /\ logged[c] = ReadLines(c) \o ErrorLines(c) \o RequestLines(c)
    /\ ReadLines(c) = IF JobEntered(c) THEN read_file_log(Handed(c)) ELSE <<>>
    /\ resp[c] = None => ErrorLines(c) = <<>> /\ RequestLines(c) = <<>>
    /\ resp[c] # None =>
         /\ Outcome(c).kind = "Ready"
         /\ RequestLines(c) = <<RequestLine(c)>>
         /\ ErrorLines(c) # <<>> => TheResponse(c).status = 500

\* A GET answered 404 has two lines: that of read_file, written while the
\* request was waiting, and its request line, which says 404.
C17_Witness ==
  \E c \in Responded :
    /\ TheResponse(c).status = 404
    /\ Len(logged[c]) = 2
    /\ ReadLines(c) = <<logged[c][1]>>
    /\ logged[c][2].status = 404

\* ---------------------------------------------------------------------------
\* The pool: jobs, threads and connections.

\* The number of jobs in the pool that report to connection c.
JobsOf(c) ==
  Cardinality(QueuedWhere(LAMBDA j : j.conn = c))
    + Cardinality(RunningWhere(LAMBDA j : j.conn = c))

\* The future of connection c waits for its job / has got its value.
Pending(c) == fut[c] = Some(Found(None))

Resolved(c) == fut[c] # None /\ ~Pending(c)

C12_OneJob ==
  \A c \in DOMAIN req :
    /\ JobsOf(c) <= 1
    /\ JobsOf(c) = 1 <=> Pending(c)
    /\ Pending(c) => c \in ServingGet

C12_StatusByJob ==
  \A c \in Answered :
    /\ Outcome(c).kind = "Ready"
    /\ Resolved(c)
    /\ TheResponse(c).status \in {200, 404, 405, 500}
    /\ TheResponse(c).status = 200 <=> (c \in ServingGet /\ JobResult(c).ok)

C12_Settled ==
  \A c \in DOMAIN req :
    /\ req[c] # None => req'[c] \in {req[c], None}
    /\ Resolved(c) => fut'[c] \in {fut[c], None}
    /\ resp[c] # None =>
         \/ req'[c] = None /\ fut'[c] = None /\ resp'[c] = None
         \/ req'[c] = req[c] /\ fut'[c] = fut[c] /\ resp'[c] = resp[c]
                /\ logged'[c] = logged[c]

\* C12: under any interleaving of requests, thread steps and polls, a request
\* has at most one job in the pool and has one exactly while its future is
\* pending; a future that has got its value keeps it; a request that has its
\* outcome keeps request, value, outcome and log lines until it is finished;
\* and the status is 200 exactly when the request is a GET whose job
\* succeeded, and otherwise 404, 405 or 500.
C12_OneJobOneOutcome ==
  /\ [](C12_OneJob /\ C12_StatusByJob)
  /\ [][C12_Settled]_vars

\* Two connections have their outcomes at once, a 200 and a 500.
C12_Witness ==
  \E c, d \in Responded :
    TheResponse(c).status = 200 /\ TheResponse(d).status = 500

\* The threads that hold a job.
Busy == { w \in DOMAIN worker : worker[w] # None }

\* k is the job j, with its CpuFuture or after the CpuFuture was dropped.
SameJob(j, k) == k = j \/ k = [j EXCEPT !.conn = Gone]

\* The queue grows by one job at its tail, keeps its jobs, or loses its head.
QueueStep ==
  \/ /\ Len(queue') = Len(queue) + 1
     /\ SubSeq(queue', 1, Len(queue)) = queue
  \/ /\ Len(queue') = Len(queue)
     /\ \A i \in DOMAIN queue : SameJob(queue[i], queue'[i])
  \/ /\ queue # <<>>
     /\ queue' = Tail(queue)

\* A GET that call accepts has its job at the tail of the queue.
SpawnStep ==
  \A c \in DOMAIN req :
    (req[c] = None /\ req'[c] # None /\ Unwrap(req'[c]).method = "GET") =>
      /\ Len(queue') = Len(queue) + 1
      /\ Last(queue').conn = c
      /\ worker' = worker

\* The job that leaves the queue is on a thread that was idle, and the other
\* threads are as they were; if discards, a job whose CpuFuture is gone may
\* instead be on no thread.
TakeStep(discards) ==
  (queue # <<>> /\ queue' = Tail(queue)) =>
     \/ \E w \in DOMAIN worker :
          /\ worker[w] = None
          /\ worker' = [worker EXCEPT ![w] = Some(Head(queue))]
     \/ discards /\ Head(queue).conn = Gone /\ worker' = worker

\* A job on a thread stays on that thread until read_file has returned.
RunStep ==
  \A w \in Busy :
    LET job == Unwrap(worker[w]) IN
    \/ worker'[w] # None /\ SameJob(job, Unwrap(worker'[w]))
    \/ /\ worker'[w] = None
       /\ ~OpenBlocks(job.canonical)
       /\ job.conn # Gone =>
            fut'[job.conn] = Some(Found(Some(read_file(job.canonical, job.gzip))))

\* C13 (as claimed): at most 4 jobs are executing at once; a job submitted,
\* also while all 4 threads are busy, is queued, never rejected or dropped;
\* queued jobs are taken by the threads in submission order; and a job once
\* taken by a thread runs to completion on that thread.
C13_QueuedTakenInOrderRunToEnd ==
  /\ [](Cardinality(Busy) <= 4)
  /\ [][QueueStep /\ SpawnStep /\ TakeStep(FALSE) /\ RunStep]_vars

\* C13 (amended): the same, except that a job whose CpuFuture was dropped
\* while it was queued is, when it is taken at the head of the queue,
\* discarded without being run.
C13_QueuedTakenInOrderRunUnlessGone ==
  /\ [](Cardinality(Busy) <= 4)
  /\ [][QueueStep /\ SpawnStep /\ TakeStep(TRUE) /\ RunStep]_vars

\* All 4 threads are busy and two more jobs wait in the queue, the second
\* one submitted by a connection that is still waiting.
C13_Witness ==
  /\ Cardinality(Busy) = 4
  /\ Len(queue) = 2
  /\ queue[2].conn # Gone

\* call can be made on every connection that has no request, for every
\* request, whatever the pool holds.
CallNeverWaits ==
  \A c \in DOMAIN req : req[c] = None =>
    \A r \in PoolRequests :
      \A canonical \in {spawn_read_canonical(root, Tail(r.path))} :
        ENABLED CallWith(c, r, canonical)

\* call returns a future without a file's content in it; the content gets
\* into the future in the step of the pool thread that holds the job, and is
\* what read_file returns.
FileWorkInJobs ==
  \A c \in DOMAIN req :
    /\ (req[c] = None /\ req'[c] # None) =>
         fut'[c] \in {Some(NotAllowed), Some(Found(None))}
    /\ (Pending(c) /\ fut'[c] # None /\ fut'[c] # fut[c]) =>
         \E w \in Busy :
           LET job == Unwrap(worker[w]) IN
           /\ job.conn = c
           /\ worker'[w] = None
           /\ fut'[c] = Some(Found(Some(read_file(job.canonical, job.gzip))))

\* C14: in every reachable state, whatever the number of running and queued
\* jobs, a new request can be accepted and dispatched; and opening, reading
\* and compressing a file are done only by pool threads running jobs, never
\* by call.
C14_AcceptNeverBlocked ==
  /\ []CallNeverWaits
  /\ [][FileWorkInJobs]_vars

\* A connection is free for a new request while all 4 threads are busy and a
\* job waits in the queue.
C14_Witness ==
  /\ Cardinality(Busy) = 4
  /\ queue # <<>>
  /\ \E c \in DOMAIN req : req[c] = None

\* Connection a had its request handled before connection b had.
StartedBefore(a, b) ==
  \E i, j \in DOMAIN started : i < j /\ started[i] = a /\ started[j] = b

\* C15: a future that has got its value and has not been answered can be
\* polled to its response whatever the other requests are doing, so no
\* response waits for the response of an earlier request.
C15_NoHeadOfLineBlocking ==
  \A c \in DOMAIN req :
    (Resolved(c) /\ resp[c] = None) => ENABLED Poll(c)

\* Request A was handled before request B; B, a GET served from its file,
\* has its response while the job of A is still on its thread.
C15_Witness ==
  \E a, b \in ServingGet :
    /\ StartedBefore(a, b)
    /\ b \in Responded
    /\ TheResponse(b).status = 200
    /\ resp[a] = None
    /\ \E w \in Busy : Unwrap(worker[w]).conn = a

\* Connection c waits for a job whose file operations terminate.
WaitsForJob(c) == Pending(c) /\ ~SpawnsStuck(TheRequest(c))

\* The request of connection c has its response, or its client has gone.
AnsweredOrGone(c) == resp[c] # None \/ req[c] = None

\* C16: with fewer than 4 jobs that never finish, each of them holding one
\* thread, every other job whose file operations terminate is eventually run
\* by one of the remaining threads, and its request eventually gets its
\* response unless its client goes away first (threads and event loop being
\* scheduled fairly).
C16_OtherJobsStillServed ==
  /\ [](Stuck < PoolSize /\ Cardinality(StuckWorkers) <= Stuck)
  /\ \A c \in PoolConns : WaitsForJob(c) ~> (Resolved(c) \/ req[c] = None)
  /\ \A c \in PoolConns : WaitsForJob(c) ~> AnsweredOrGone(c)

\* Three threads are stuck, and the fourth runs the job of a connection that
\* waits for it behind them.
C16_Witness ==
  /\ Cardinality(StuckWorkers) = 3
  /\ \E w \in Busy \ StuckWorkers :
       LET c == Unwrap(worker[w]).conn IN
       /\ c # Gone
       /\ WaitsForJob(c)
       /\ \E v \in StuckWorkers : Unwrap(worker[v]).conn # Gone
                                    /\ StartedBefore(Unwrap(worker[v]).conn, c)

\* The number of jobs in the pool.
PoolCount == Len(queue) + Cardinality(Busy)

\* A thread that held a job holds none after the step.
SomeJobDone == \E w \in Busy : worker'[w] = None

\* C18 (as claimed): a job that has been submitted is run to completion, also
\* when the client has gone away before the job started or finished; no job
\* is cancelled or removed from the queue. So the pool never holds fewer jobs
\* after a step unless a thread has finished one.
C18_SubmittedJobsAlwaysRun ==
  [][PoolCount' < PoolCount => SomeJobDone]_vars

\* The client of a waiting request goes away: the pool holds the same jobs,
\* in the same places.
DisconnectStep ==
  (\E c \in DOMAIN req : req[c] # None /\ resp[c] = None /\ req'[c] = None) =>
    /\ Len(queue') = Len(queue)
    /\ \A i \in DOMAIN queue : SameJob(queue[i], queue'[i])
    /\ \A w \in DOMAIN worker :
         IF w \in Busy THEN worker'[w] # None
                             /\ SameJob(Unwrap(worker[w]), Unwrap(worker'[w]))
         ELSE worker'[w] = None

\* A job without its CpuFuture that is on a thread stays there until
\* read_file has returned, and no future gets the result; one that is
\* taken from the queue is put on no thread.
OrphanStep ==
  /\ \A w \in RunningWhere(IsOrphan) :
       \/ worker'[w] = worker[w]
       \/ /\ worker'[w] = None
          /\ ~OpenBlocks(Unwrap(worker[w]).canonical)
          /\ fut' = fut
  /\ (queue # <<>> /\ IsOrphan(Head(queue)) /\ queue' = Tail(queue)) =>
       worker' = worker

\* C18 (amended): when the client goes away, no job is removed from the pool
\* at that moment. A job a thread has started is run to completion and its
\* result is thrown away; a job still queued stays queued until it is at
\* the head, where the thread that takes it discards it without running it.
\* The pool holds fewer jobs after a step only if a thread has finished one
\* or such a job has been discarded at the head of the queue.
C18_StartedJobsRunQueuedOnesCancelled ==
  [][/\ DisconnectStep
     /\ OrphanStep
     /\ PoolCount' < PoolCount =>
          \/ SomeJobDone
          \/ queue # <<>> /\ IsOrphan(Head(queue)) /\ queue' = Tail(queue)]_vars

\* A job whose client has gone is running on a thread, another one is at the
\* head of the queue, and a thread is idle to take it.
C18_Witness ==
  /\ RunningWhere(IsOrphan) # {}
  /\ queue # <<>> /\ IsOrphan(Head(queue))
  /\ Busy # DOMAIN worker

\* Connections whose request is not a GET.
ServingOther == Serving \ ServingGet

\* A request that is not a GET has no job, and its future gives the 405 at
\* the poll that can be made at once.
RefusedWithoutJob ==
  \A c \in ServingOther :
    /\ JobsOf(c) = 0
    /\ fut[c] = Some(NotAllowed)
    /\ resp[c] = None =>
         /\ ResponseFuture_poll(Unwrap(fut[c])) = Ready(with_status(ResponseNew, 405))
         /\ ENABLED Poll(c)
    /\ resp[c] # None => Outcome(c) = Ready(with_status(ResponseNew, 405))

\* Neither call nor poll of such a request changes the jobs of the pool.
RefusingLeavesPool ==
  \A c \in DOMAIN req :
    /\ (req[c] = None /\ req'[c] # None /\ Unwrap(req'[c]).method # "GET") =>
         queue' = queue /\ worker' = worker
    /\ (c \in ServingOther /\ resp[c] = None /\ resp'[c] # None) =>
         queue' = queue /\ worker' = worker

\* C19: a request whose method is not GET submits no job: handling it and
\* polling it leave the queued and the running jobs as they are, and its 405
\* is ready at the first poll, whatever the pool is doing.
C19_NonGetLeavesPoolAlone ==
  /\ []RefusedWithoutJob
  /\ [][RefusingLeavesPool]_vars

\* A POST has got its 405 while all 4 threads are busy and a job is queued.
C19_Witness ==
  /\ Cardinality(Busy) = 4
  /\ queue # <<>>
  /\ \E c \in ServingOther \cap Responded : TheResponse(c).status = 405
====
